---- MODULE Spec2Model ----
(***************************************************************************)
(* Model of model/geom_ops.py (RGN geometric operations).                  *)
(*                                                                         *)
(* Numbers.  Tensors of float32 are modelled by integers.  Coordinates     *)
(* and local points are lattice vectors <<x, y, z>>; direction cosines     *)
(* (the columns of the rotation matrix m of extend) are integer unit       *)
(* vectors.  The local points fed to point_to_coordinate have exactly one  *)
(* non-zero component, which keeps every frame axis-aligned and every      *)
(* normalisation exact (NormalisationExact below checks this).             *)
(* init_mat is held in units of 1/1000, rounded.                           *)
(*                                                                         *)
(* Arrays.  A tensor axis of size n is a function on 0..n-1, so indices    *)
(* are the code's indices.  The BATCH_SIZE axis of point_to_coordinate is  *)
(* not carried: pad, reshape, transpose, tile and matmul all leave that    *)
(* axis in place and act on each batch element alike.  pairwise_distance   *)
(* and drmsd carry it.                                                     *)
(*                                                                         *)
(* Provenance.  Every element of a point or coordinate tensor is a record  *)
(* [v, src, dep, via]: v is the value the code computes; src is the index  *)
(* (in the padded point sequence) of the local point the atom was placed   *)
(* from; dep is the set of padded point indices the value was computed     *)
(* from; via lists, outermost first, the src of the frame origin of every  *)
(* whole-fragment transform applied to it.  src, dep and via are carried   *)
(* through exactly the index manipulations the values go through.          *)
(***************************************************************************)
EXTENDS Integers, Sequences, FiniteSets, TLC

\* point_to_coordinate: pc is the position in the function; pt and
\* num_fragments are the caller's arguments; num_frags is the local
\* num_fragments after line 248 (NUM_FRAGS); pt_lanes is the local pt after
\* line 274; i, tris, coords_ta and coords_trans are the loop variables of the
\* two while_loops; merge_log lists the i_ of every loop_trans call so far.
\* pairwise_distance / drmsd: dpc is the call made, u, v, weights the
\* arguments, dist the matrix pairwise_distance returned, norms the value
\* drmsd returned.
\* dihedral_to_point: hpc is the position in the function, dihedral the
\* argument, pt_final the tensor returned.
VARIABLES pc, pt, num_fragments, num_frags, s, r, pt_lanes, i, tris, coords_ta,
          coords_pre_trans, coords_trans, coords, merge_log,
          dpc, u, v, weights, dist, norms,
          hpc, dihedral, pt_final

vars == <<pc, pt, num_fragments, num_frags, s, r, pt_lanes, i, tris, coords_ta,
          coords_pre_trans, coords_trans, coords, merge_log,
          dpc, u, v, weights, dist, norms,
          hpc, dihedral, pt_final>>

p2cVars == <<pc, pt, num_fragments, num_frags, s, r, pt_lanes, i, tris,
             coords_ta, coords_pre_trans, coords_trans, coords, merge_log>>

distVars == <<dpc, u, v, weights, dist, norms>>

dihVars == <<hpc, dihedral, pt_final>>

(***************************************************************************)
(* Bounds of the model.                                                    *)
(***************************************************************************)
\* longest local-point sequence (NUM_STEPS x NUM_DIHEDRALS) of general shape
MaxN == 4
\* largest explicit num_fragments
MaxF == 4
\* longest residue count of the uniform sequences (N = 3 * STEPS)
MaxSteps == 3

NUM_DIMENSIONS == 3
NUM_DIHEDRALS == 3

(***************************************************************************)
(* Arrays                                                                  *)
(***************************************************************************)
Size(x) == Cardinality(DOMAIN x)

Empty == [k \in {} |-> 0]

Concat(x, y) ==
    [k \in 0..(Size(x) + Size(y) - 1) |->
        IF k < Size(x) THEN x[k] ELSE y[k - Size(x)]]

Min(a, b) == IF a < b THEN a ELSE b
Max(a, b) == IF a > b THEN a ELSE b

\* x[:n] for n >= 0
Slice(x, n) == [k \in 0..(Min(n, Size(x)) - 1) |-> x[k]]

\* tf.transpose(x, perm=[1, 0, ...]) of a non-empty [A, B, ...] tensor
TransposeColMajorBug(x) ==
    [t \in 0..(Size(x[0]) - 1) |-> [f \in 0..(Size(x) - 1) |->
        x[(t * Size(x) + f) \div Size(x[0])][(t * Size(x) + f) % Size(x[0])]]]

Transpose(x) ==
    [t \in 0..(Size(x[0]) - 1) |-> [f \in 0..(Size(x) - 1) |-> x[f][t]]]

\* tf.reshape(x, [nf, -1, ...]) of a flat [nf * fs, ...] tensor (row-major)
Reshape(x, nf) ==
    LET fs == Size(x) \div nf
    IN  [f \in 0..(nf - 1) |-> [t \in 0..(fs - 1) |-> x[f * fs + t]]]

(***************************************************************************)
(* Vectors                                                                 *)
(***************************************************************************)
Zero == <<0, 0, 0>>

Add(a, b) == <<a[1] + b[1], a[2] + b[2], a[3] + b[3]>>
Sub(a, b) == <<a[1] - b[1], a[2] - b[2], a[3] - b[3]>>
Cross(a, b) == <<a[2] * b[3] - a[3] * b[2],
                 a[3] * b[1] - a[1] * b[3],
                 a[1] * b[2] - a[2] * b[1]>>
SumSq(a) == a[1] * a[1] + a[2] * a[2] + a[3] * a[3]

RECURSIVE SqrtSearch(_, _, _)
SqrtSearch(x, lo, hi) ==
    IF lo >= hi THEN lo
    ELSE LET mid == (lo + hi + 1) \div 2
         IN  IF mid * mid <= x THEN SqrtSearch(x, mid, hi)
                               ELSE SqrtSearch(x, lo, mid - 1)

\* sqrt, rounded down to the unit of the result
SqrtFloor(x) == SqrtSearch(x, 0, Min(x, 46340))

\* tf.nn.l2_normalize(x, -1): x * rsqrt(max(sum(x^2), epsilon)).  epsilon is
\* below the unit of the lattice: it is the maximum only for the zero vector,
\* which is mapped to the zero vector.
L2Normalize(x) ==
    IF SumSq(x) = 0 THEN Zero
    ELSE LET n == SqrtFloor(SumSq(x))
         IN  <<x[1] \div n, x[2] \div n, x[3] \div n>>

\* matmul(m, p) for m given by its three columns (the "3 TRANS" axis)
MatMul(m, p) ==
    <<m[1][1] * p[1] + m[2][1] * p[2] + m[3][1] * p[3],
      m[1][2] * p[1] + m[2][2] * p[2] + m[3][2] * p[3],
      m[1][3] * p[1] + m[2][3] * p[2] + m[3][3] * p[3]>>

(***************************************************************************)
(* point_to_coordinate                                                     *)
(***************************************************************************)
\* local points the callers hand in: bond angle pi/2 with dihedral 0, pi/2, pi
\* (one component perpendicular to the bond axis), and a collinear point
\* (bond angle pi: no perpendicular component, a degenerate frame follows)
PointSet == { <<0, 1, 0>>, <<0, 0, 2>>, <<0, -1, 0>>, <<2, 0, 0>> }

Elem(val, k, d, w) == [v |-> val, src |-> k, dep |-> d, via |-> w]

\* an element that no local point produced (init_mat rows, front padding)
Const(val) == Elem(val, -1, {}, <<>>)

Triplet(a_, b_, c_) == [a |-> a_, b |-> b_, c |-> c_]

\* init_mat, in units of 1/1000
InitMat == << <<-707, 1225, 0>>, <<-1414, 0, 0>>, <<0, 0, 0>> >>

\* num_fragments is None: cast(sqrt(cast(s, float32)), int32)
AdaptiveRoundBug(s_) == (SqrtFloor(4 * s_) + 1) \div 2

AdaptiveFragments(s_) == SqrtFloor(s_)

\* the tile of init_coords rejects a negative multiple, and s % 0 and the
\* reshape to [0, -1, ...] reject num_fragments = 0; nothing else is checked
ValidatingBug(s_, nf) == nf <= 0 \/ nf > s_

SetupFails(s_, nf) == nf <= 0

InitCoords(nf) ==
    Triplet([f \in 0..(nf - 1) |-> Const(InitMat[1])],
            [f \in 0..(nf - 1) |-> Const(InitMat[2])],
            [f \in 0..(nf - 1) |-> Const(InitMat[3])])

PadRemainderBug(s_, nf) == nf - (s_ % nf)

PadRemainder(s_, nf) == (nf - (s_ % nf)) % nf

\* tf.pad(pt, [[0, r], ...]): r zero points at the end
PadEnd(pt_, r_) ==
    [k \in 0..(Size(pt_) + r_ - 1) |->
        IF k < Size(pt_) THEN Elem(pt_[k], k, {k}, <<>>)
                         ELSE Elem(Zero, k, {k}, <<>>)]

\* pt after pad, reshape and transpose: [FRAG_SIZE, NUM_FRAGS]
Lanes(pt_, nf) ==
    Transpose(Reshape(PadEnd(pt_, PadRemainder(Size(pt_), nf)), nf))

\* coordinates of one atom: m . point + c, m = [bc, n x bc, n]
ExtendVec(a_, b_, c_, point) ==
    LET bc == L2Normalize(Sub(c_, b_))
        n  == L2Normalize(Cross(Sub(b_, a_), bc))
        m  == <<bc, Cross(n, bc), n>>
    IN  Add(MatMul(m, point), c_)

ExtendElem(a_, b_, c_, point, multi_m) ==
    Elem(ExtendVec(a_.v, b_.v, c_.v, point.v),
         point.src,
         point.dep \cup a_.dep \cup b_.dep \cup c_.dep,
         IF multi_m THEN point.via ELSE <<c_.src>> \o point.via)

\* extend(tri, point, multi_m)
Extend(tri, point, multi_m) ==
    IF multi_m
    THEN [f \in DOMAIN point |->
            ExtendElem(tri.a[f], tri.b[f], tri.c[f], point[f], TRUE)]
    ELSE [k \in DOMAIN point |->
            ExtendElem(tri.a, tri.b, tri.c, point[k], FALSE)]

\* loop_extend(i_, tri, coords_ta_)
LoopExtendNoAdvanceBug(i_, tri, coords_ta_, ptl) ==
    LET coord == Extend(tri, ptl[i_], TRUE)
    IN  [i   |-> i_ + 1,
         tri |-> Triplet(tri.a, tri.b, coord),
         ta  |-> [coords_ta_ EXCEPT ![i_] = coord]]

LoopExtendBody(i_, tri, coords_ta_, ptl) ==
    LET coord == Extend(tri, ptl[i_], TRUE)
    IN  [i   |-> i_ + 1,
         tri |-> Triplet(tri.b, tri.c, coord),
         ta  |-> [coords_ta_ EXCEPT ![i_] = coord]]

\* Triplet(*[di[i_] for di in tris])
TripletAtFirstBug(tris_, i_) == Triplet(tris_.a[0], tris_.b[0], tris_.c[0])

TripletAt(tris_, i_) == Triplet(tris_.a[i_], tris_.b[i_], tris_.c[i_])

\* loop_trans(i_, coords_)
LoopTransBody(i_, coords_, tris_, cpt) ==
    [i      |-> i_ - 1,
     coords |-> Concat(cpt[i_], Extend(TripletAt(tris_, i_), coords_, FALSE))]

\* initial loop variables of the second while_loop: [i - 2, coords_pre_trans[-1]]
TransStartBug(cpt) == [i |-> Size(cpt) - 1, coords |-> cpt[Size(cpt) - 1]]

TransStart(cpt) == [i |-> Size(cpt) - 2, coords |-> cpt[Size(cpt) - 1]]

\* tf.pad(coords_trans[:s - 1], [[1, 0], ...])
TrimNoShiftBug(ct, s_) == Slice(ct, s_)

TrimNoCutBug(ct, s_) == Concat([k \in {0} |-> Const(Zero)], Slice(ct, Size(ct) - 1))

Trim(ct, s_) == Concat([k \in {0} |-> Const(Zero)], Slice(ct, s_ - 1))

RECURSIVE WhileExtend(_, _, _, _)
WhileExtend(i_, tri, coords_ta_, ptl) ==
    IF i_ < Size(ptl)
    THEN LET n == LoopExtendBody(i_, tri, coords_ta_, ptl)
         IN  WhileExtend(n.i, n.tri, n.ta, ptl)
    ELSE [tri |-> tri, ta |-> coords_ta_]

RECURSIVE WhileTrans(_, _, _, _)
WhileTrans(i_, coords_, tris_, cpt) ==
    IF i_ > -1
    THEN LET n == LoopTransBody(i_, coords_, tris_, cpt)
         IN  WhileTrans(n.i, n.coords, tris_, cpt)
    ELSE coords_

\* the value point_to_coordinate(pt_, num_fragments = nf) returns, nf >= 1
PointToCoordinate(pt_, nf) ==
    LET ptl == Lanes(pt_, nf)
        p1  == WhileExtend(0, InitCoords(nf), [t \in DOMAIN ptl |-> Empty], ptl)
        cpt == Transpose(p1.ta)
        st  == TransStart(cpt)
    IN  Trim(WhileTrans(st.i, st.coords, p1.tri, cpt), Size(pt_))

Vals(x) == [k \in DOMAIN x |-> x[k].v]

(***************************************************************************)
(* State machine of one call of point_to_coordinate                        *)
(***************************************************************************)
DistIdle ==
    /\ dpc = "idle"
    /\ u = Empty
    /\ v = Empty
    /\ weights = Empty
    /\ dist = Empty
    /\ norms = Empty

DihIdle ==
    /\ hpc = "idle"
    /\ dihedral = Empty
    /\ pt_final = Empty

P2CStart(pt_, nf_) ==
    /\ pc = "start"
    /\ pt = pt_
    /\ num_fragments = nf_
    /\ num_frags = 0
    /\ s = Size(pt_)
    /\ r = 0
    /\ pt_lanes = Empty
    /\ i = 0
    /\ tris = Triplet(Empty, Empty, Empty)
    /\ coords_ta = Empty
    /\ coords_pre_trans = Empty
    /\ coords_trans = Empty
    /\ coords = Empty
    /\ merge_log = <<>>

\* a call with any short point sequence and an explicit or adaptive
\* fragment count, or with a longer uniform sequence of whole residues
Init ==
    /\ DistIdle
    /\ DihIdle
    /\ \/ \E n \in 1..MaxN : \E pt_ \in [0..(n - 1) -> PointSet] :
            \E nf_ \in {<<>>} \cup {<<f>> : f \in (-1)..MaxF} :
                P2CStart(pt_, nf_)
       \/ \E steps \in 1..MaxSteps : \E p \in PointSet :
            \E nf_ \in {<<>>} \cup {<<f>> : f \in 1..MaxF} :
                P2CStart([k \in 0..(steps * NUM_DIHEDRALS - 1) |-> p], nf_)

\* lines 243-274 and 319-323: fragment count, init_coords, pad, reshape,
\* transpose, loop variables of the first while_loop
Setup ==
    /\ pc = "start"
    /\ LET nf == IF num_fragments = <<>> THEN AdaptiveFragments(s)
                                         ELSE num_fragments[1]
       IN  /\ ~SetupFails(s, nf)
           /\ num_frags' = nf
           /\ tris' = InitCoords(nf)
           /\ r' = PadRemainder(s, nf)
           /\ pt_lanes' = Lanes(pt, nf)
           /\ i' = 0
           /\ coords_ta' = [t \in DOMAIN Lanes(pt, nf) |-> Empty]
    /\ pc' = "loop_extend"
    /\ UNCHANGED <<pt, num_fragments, s, coords_pre_trans, coords_trans,
                   coords, merge_log>>
    /\ UNCHANGED distVars
    /\ UNCHANGED dihVars

\* a fragment count the graph construction / first run rejects
SetupError ==
    /\ pc = "start"
    /\ num_fragments # <<>>
    /\ SetupFails(s, num_fragments[1])
    /\ pc' = "error"
    /\ UNCHANGED <<pt, num_fragments, num_frags, s, r, pt_lanes, i, tris,
                   coords_ta, coords_pre_trans, coords_trans, coords, merge_log>>
    /\ UNCHANGED distVars
    /\ UNCHANGED dihVars

\* one iteration of the first while_loop
LoopExtend ==
    /\ pc = "loop_extend"
    /\ i < Size(pt_lanes)
    /\ LET n == LoopExtendBody(i, tris, coords_ta, pt_lanes)
       IN  /\ i' = n.i
           /\ tris' = n.tri
           /\ coords_ta' = n.ta
    /\ UNCHANGED <<pc, pt, num_fragments, num_frags, s, r, pt_lanes,
                   coords_pre_trans, coords_trans, coords, merge_log>>
    /\ UNCHANGED distVars
    /\ UNCHANGED dihVars

\* exit of the first while_loop, lines 342-355
ExtendDone ==
    /\ pc = "loop_extend"
    /\ ~(i < Size(pt_lanes))
    /\ coords_pre_trans' = Transpose(coords_ta)
    /\ LET st == TransStart(Transpose(coords_ta))
       IN  /\ i' = st.i
           /\ coords_trans' = st.coords
    /\ pc' = "loop_trans"
    /\ UNCHANGED <<pt, num_fragments, num_frags, s, r, pt_lanes, tris, coords_ta,
                   coords, merge_log>>
    /\ UNCHANGED distVars
    /\ UNCHANGED dihVars

\* one iteration of the second while_loop
LoopTrans ==
    /\ pc = "loop_trans"
    /\ i > -1
    /\ LET n == LoopTransBody(i, coords_trans, tris, coords_pre_trans)
       IN  /\ i' = n.i
           /\ coords_trans' = n.coords
    /\ merge_log' = Append(merge_log, i)
    /\ UNCHANGED <<pc, pt, num_fragments, num_frags, s, r, pt_lanes, tris,
                   coords_ta, coords_pre_trans, coords>>
    /\ UNCHANGED distVars
    /\ UNCHANGED dihVars

\* exit of the second while_loop, lines 359-365
Return ==
    /\ pc = "loop_trans"
    /\ ~(i > -1)
    /\ coords' = Trim(coords_trans, s)
    /\ pc' = "done"
    /\ UNCHANGED <<pt, num_fragments, num_frags, s, r, pt_lanes, i, tris,
                   coords_ta, coords_pre_trans, coords_trans, merge_log>>
    /\ UNCHANGED distVars
    /\ UNCHANGED dihVars

Next ==
    \/ Setup
    \/ SetupError
    \/ LoopExtend
    \/ ExtendDone
    \/ LoopTrans
    \/ Return

Spec == Init /\ [][Next]_vars

(***************************************************************************)
(* Sanity of the number model                                              *)
(***************************************************************************)
AxisOrZero(x) == Cardinality({d \in 1..3 : x[d] # 0}) <= 1

\* every vector the reconstruction normalises is zero or axis-aligned, so
\* the integer normalisation is exact
NormalisationExact ==
    pc \in {"loop_extend", "loop_trans", "done"} =>
        \A f \in DOMAIN tris.a :
            /\ AxisOrZero(Sub(tris.c[f].v, tris.b[f].v))
            /\ AxisOrZero(Cross(Sub(tris.b[f].v, tris.a[f].v),
                                L2Normalize(Sub(tris.c[f].v, tris.b[f].v))))

(***************************************************************************)
(* reduce_l2_norm, pairwise_distance, drmsd                                *)
(*                                                                         *)
(* Coordinates here are integers in units of 1e-6, so that a squared       *)
(* length is in units of 1e-12 and the default epsilon = 1e-12 is one      *)
(* unit; sqrt is rounded down to the unit of lengths.                      *)
(***************************************************************************)
\* longest coordinate set handed to pairwise_distance / drmsd
MaxDistSteps == 2
\* largest BATCH_SIZE handed to pairwise_distance / drmsd
MaxBatch == 2

\* epsilon=1e-12, in squared units of 1e-6
Epsilon == 1

\* tf.reduce_sum of a flat tensor x, from index k on
RECURSIVE SumFrom(_, _)
SumFrom(x, k) == IF k >= Size(x) THEN 0 ELSE x[k] + SumFrom(x, k + 1)

\* weights=None
None == Empty

\* reduce_l2_norm over the elements x of the reduced axes (flattened), with
\* weights w of the same shape or None
ReduceL2NormNoFloorBug(x, w, eps) ==
    SqrtFloor(SumFrom([k \in DOMAIN x |->
                          IF w = None THEN x[k] * x[k] ELSE x[k] * x[k] * w[k]],
                      0))

ReduceL2Norm(x, w, eps) ==
    SqrtFloor(Max(SumFrom([k \in DOMAIN x |->
                              IF w = None THEN x[k] * x[k]
                                          ELSE x[k] * x[k] * w[k]],
                          0),
                  eps))

\* u - tf.expand_dims(u, 1): [NUM_STEPS, NUM_STEPS, BATCH_SIZE, NUM_DIMENSIONS]
PairwiseDiffsBatchBug(u_) ==
    [j \in DOMAIN u_ |-> [k \in DOMAIN u_ |-> [b \in DOMAIN u_[k] |->
        Sub(u_[k][b], u_[j][0])]]]

PairwiseDiffs(u_) ==
    [j \in DOMAIN u_ |-> [k \in DOMAIN u_ |-> [b \in DOMAIN u_[k] |->
        Sub(u_[k][b], u_[j][b])]]]

\* pairwise_distance(u): [NUM_STEPS, NUM_STEPS, BATCH_SIZE], the norm taken
\* over axis 3
PairwiseDistance(u_) ==
    LET diffs == PairwiseDiffs(u_)
    IN  [j \in DOMAIN diffs |-> [k \in DOMAIN diffs[j] |->
            [b \in DOMAIN diffs[j][k] |->
                ReduceL2Norm([d \in 0..(NUM_DIMENSIONS - 1) |->
                                 diffs[j][k][b][d + 1]],
                             None, Epsilon)]]]

\* drmsd(u, v, weights): [BATCH_SIZE], the norm taken over axes 0 and 1
Drmsd(u_, v_, weights_) ==
    LET n  == Size(u_)
        du == PairwiseDistance(u_)
        dv == PairwiseDistance(v_)
    IN  [b \in DOMAIN u_[0] |->
            ReduceL2Norm([p \in 0..(n * n - 1) |->
                             du[p \div n][p % n][b] - dv[p \div n][p % n][b]],
                         [p \in 0..(n * n - 1) |->
                             weights_[p \div n][p % n][b]],
                         Epsilon)]

\* atom positions of the coordinate sets handed in
CoordSet == { <<0, 0, 0>>, <<1, 2, 2>> }

\* non-negative weight arrays handed in: all zero, all one, varied
WeightPattern(k, n, bs) ==
    [j \in 0..(n - 1) |-> [m \in 0..(n - 1) |-> [b \in 0..(bs - 1) |->
        IF k = 0 THEN 0 ELSE IF k = 1 THEN 1 ELSE (j + 2 * m + b) % 3]]]

\* the second coordinate set: the first itself, the first translated, the
\* first with its steps in reverse order, the first stretched
Other(k, u_) ==
    IF k = 0 THEN u_
    ELSE IF k = 1
         THEN [j \in DOMAIN u_ |-> [b \in DOMAIN u_[j] |->
                    Add(u_[j][b], <<1, 2, 0>>)]]
    ELSE IF k = 2
         THEN [j \in DOMAIN u_ |-> u_[Size(u_) - 1 - j]]
         ELSE [j \in DOMAIN u_ |-> [b \in DOMAIN u_[j] |->
                    Add(u_[j][b], u_[j][b])]]

P2CIdle ==
    /\ pc = "idle"
    /\ pt = Empty
    /\ num_fragments = <<>>
    /\ num_frags = 0
    /\ s = 0
    /\ r = 0
    /\ pt_lanes = Empty
    /\ i = 0
    /\ tris = Triplet(Empty, Empty, Empty)
    /\ coords_ta = Empty
    /\ coords_pre_trans = Empty
    /\ coords_trans = Empty
    /\ coords = Empty
    /\ merge_log = <<>>

InitDist ==
    /\ P2CIdle
    /\ DihIdle
    /\ dpc = "idle"
    /\ dist = Empty
    /\ norms = Empty
    /\ \E n \in 1..MaxDistSteps : \E bs \in 1..MaxBatch :
         \E u_ \in [0..(n - 1) -> [0..(bs - 1) -> CoordSet]] :
           \E vk \in 0..3 : \E wk \in 0..2 :
             /\ u = u_
             /\ v = Other(vk, u_)
             /\ weights = WeightPattern(wk, n, bs)

\* a call pairwise_distance(u)
CallPairwiseDistance ==
    /\ dpc = "idle"
    /\ dist' = PairwiseDistance(u)
    /\ dpc' = "pairwise_distance"
    /\ UNCHANGED <<u, v, weights, norms>>
    /\ UNCHANGED p2cVars
    /\ UNCHANGED dihVars

\* a call drmsd(u, v, weights)
CallDrmsd ==
    /\ dpc = "idle"
    /\ norms' = Drmsd(u, v, weights)
    /\ dpc' = "drmsd"
    /\ UNCHANGED <<u, v, weights, dist>>
    /\ UNCHANGED p2cVars
    /\ UNCHANGED dihVars

NextDist ==
    \/ CallPairwiseDistance
    \/ CallDrmsd

SpecDist == InitDist /\ [][NextDist]_vars

(***************************************************************************)
(* dihedral_to_point                                                       *)
(*                                                                         *)
(* An angle is a whole number q of quarter turns, standing for q * pi / 2, *)
(* so that its cosine and sine are exact integers.  Bond lengths keep the  *)
(* code's unit; r * cos(pi - theta) and r * sin(pi - theta) are rounded to *)
(* whole units.  The BATCH_SIZE axis is carried.                           *)
(***************************************************************************)
\* largest NUM_STEPS handed to dihedral_to_point
MaxDihSteps == 2
\* largest BATCH_SIZE handed to dihedral_to_point
MaxDihBatch == 2

\* tf.cos, tf.sin of q quarter turns
Cos(q) == <<1, 0, -1, 0>>[(q % 4) + 1]
Sin(q) == <<0, 1, 0, -1>>[(q % 4) + 1]

\* r * np.cos(np.pi - theta), r * np.sin(np.pi - theta) for the default
\* BOND_LENGTHS and BOND_ANGLES: [NUM_DIHEDRALS]
r_cos_theta == [d \in 0..(NUM_DIHEDRALS - 1) |-> <<77, 55, 59>>[d + 1]]
r_sin_theta == [d \in 0..(NUM_DIHEDRALS - 1) |-> <<124, 142, 119>>[d + 1]]

\* tf.tile(tf.reshape(r_cos_theta, [1, 1, -1]), [num_steps, batch_size, 1])
PtX(num_steps, batch_size) ==
    [s_ \in 0..(num_steps - 1) |-> [b \in 0..(batch_size - 1) |->
        [d \in DOMAIN r_cos_theta |-> r_cos_theta[d]]]]

\* tf.multiply(tf.cos(dihedral), r_sin_theta): r_sin_theta is broadcast
\* along the last axis
PtY(dihedral_) ==
    [s_ \in DOMAIN dihedral_ |-> [b \in DOMAIN dihedral_[s_] |->
        [d \in DOMAIN dihedral_[s_][b] |->
            Cos(dihedral_[s_][b][d]) * r_sin_theta[d]]]]

\* tf.multiply(tf.sin(dihedral), r_sin_theta)
PtZ(dihedral_) ==
    [s_ \in DOMAIN dihedral_ |-> [b \in DOMAIN dihedral_[s_] |->
        [d \in DOMAIN dihedral_[s_][b] |->
            Sin(dihedral_[s_][b][d]) * r_sin_theta[d]]]]

\* tf.stack(xs): a new leading axis
Stack(xs) == [x \in 0..(Len(xs) - 1) |-> xs[x + 1]]

\* the shape of a non-empty rank-4 tensor
Shape4(t) == <<Size(t), Size(t[0]), Size(t[0][0]), Size(t[0][0][0])>>

\* tf.transpose(t, perm) of a non-empty rank-4 tensor: axis n of the result
\* is axis perm[n] of t
Transpose4(t, perm) ==
    LET sh == Shape4(t)
        At(idx) ==
            LET j == [a \in 1..4 |-> idx[CHOOSE n \in 1..4 : perm[n] + 1 = a]]
            IN  t[j[1]][j[2]][j[3]][j[4]]
    IN  [i0 \in 0..(sh[perm[1] + 1] - 1) |->
        [i1 \in 0..(sh[perm[2] + 1] - 1) |->
        [i2 \in 0..(sh[perm[3] + 1] - 1) |->
        [i3 \in 0..(sh[perm[4] + 1] - 1) |-> At(<<i0, i1, i2, i3>>)]]]]

\* pt_perm: [NUM_STEPS, NUM_DIHEDRALS, BATCH_SIZE, NUM_DIMS]
PtPermBatchBeforeDihedralBug(pt_) == Transpose4(pt_, <<1, 2, 3, 0>>)

PtPerm(pt_) == Transpose4(pt_, <<1, 3, 2, 0>>)

\* the elements of a non-empty rank-4 tensor in row-major order
Flatten4(t) ==
    LET sh == Shape4(t)
    IN  [f \in 0..(sh[1] * sh[2] * sh[3] * sh[4] - 1) |->
            t[f \div (sh[2] * sh[3] * sh[4])]
             [(f \div (sh[3] * sh[4])) % sh[2]]
             [(f \div sh[4]) % sh[3]]
             [f % sh[4]]]

\* tf.reshape(t, [n0, n1, n2]) of a rank-4 tensor (row-major)
Reshape3(t, n0, n1, n2) ==
    LET flat == Flatten4(t)
    IN  [k \in 0..(n0 - 1) |-> [b \in 0..(n1 - 1) |-> [x \in 0..(n2 - 1) |->
            flat[(k * n1 + b) * n2 + x]]]]

\* dihedral_to_point(dihedral) for a non-empty
\* [NUM_STEPS, BATCH_SIZE, NUM_DIHEDRALS] tensor
DihedralToPoint(dihedral_) ==
    LET num_steps  == Size(dihedral_)
        batch_size == Size(dihedral_[0])
        pt_x       == PtX(num_steps, batch_size)
        pt_y       == PtY(dihedral_)
        pt_z       == PtZ(dihedral_)
        pt_        == Stack(<<pt_x, pt_y, pt_z>>)
        pt_perm    == PtPerm(pt_)
    IN  Reshape3(pt_perm, num_steps * NUM_DIHEDRALS, batch_size,
                 NUM_DIMENSIONS)

\* angle tensors handed in: an affine pattern of the three indices, or one
\* background angle with one entry set apart
AngleTensors(ns, bs) ==
    { [s_ \in 0..(ns - 1) |-> [b \in 0..(bs - 1) |->
          [d \in 0..(NUM_DIHEDRALS - 1) |->
              (k[1] * s_ + k[2] * b + k[3] * d + k[4]) % 4]]] :
        k \in (0..3) \X (0..3) \X (0..3) \X (0..3) }
    \cup
    { [s_ \in 0..(ns - 1) |-> [b \in 0..(bs - 1) |->
          [d \in 0..(NUM_DIHEDRALS - 1) |->
              IF <<s_, b, d>> = m[1] THEN m[2] ELSE m[3]]]] :
        m \in ((0..(ns - 1)) \X (0..(bs - 1)) \X (0..(NUM_DIHEDRALS - 1)))
              \X (0..3) \X (0..3) }

InitDihedral ==
    /\ P2CIdle
    /\ DistIdle
    /\ hpc = "start"
    /\ pt_final = Empty
    /\ \E ns \in 1..MaxDihSteps : \E bs \in 1..MaxDihBatch :
         dihedral \in AngleTensors(ns, bs)

\* a call dihedral_to_point(dihedral)
CallDihedralToPoint ==
    /\ hpc = "start"
    /\ pt_final' = DihedralToPoint(dihedral)
    /\ hpc' = "done"
    /\ UNCHANGED dihedral
    /\ UNCHANGED p2cVars
    /\ UNCHANGED distVars

NextDihedral == CallDihedralToPoint

SpecDihedral == InitDihedral /\ [][NextDihedral]_vars

(***************************************************************************)
(* Properties of point_to_coordinate                                       *)
(***************************************************************************)
Returned == pc = "done"

\* FRAG_SIZE, once the points are partitioned
FragSize == Size(pt_lanes)

\* the padded point sequence, straight from the caller's pt
PaddedPoint(k) == IF k < s THEN pt[k] ELSE Zero

CeilDiv(a, b) == (a + b - 1) \div b

\* the purely sequential NeRF chain: one Triplet, one atom per point
RECURSIVE NeRFChain(_, _, _, _, _)
NeRFChain(a_, b_, c_, pt_, k) ==
    IF k >= Size(pt_) THEN Empty
    ELSE LET atom == ExtendVec(a_, b_, c_, pt_[k])
         IN  Concat([j \in {0} |-> atom], NeRFChain(b_, c_, atom, pt_, k + 1))

CanonicalNeRF(pt_) ==
    Slice(Concat([j \in {0} |-> Zero],
                 NeRFChain(InitMat[1], InitMat[2], InitMat[3], pt_, 0)),
          Size(pt_))

\* C1: with num_fragments = 1 the returned coordinates are those of the
\* canonical sequential NeRF reconstruction (zero atom first, cut to N), and
\* phase 2 aligns nothing.
C1_SingleFragmentIsSequential ==
    (Returned /\ num_frags = 1) =>
        /\ Vals(coords) = CanonicalNeRF(pt)
        /\ merge_log = <<>>
        /\ \A k \in DOMAIN coords : coords[k].via = <<>>

C1_Witness ==
    /\ Returned
    /\ num_fragments = <<1>>
    /\ s = 4
    /\ \E j, k \in DOMAIN pt : pt[j] # pt[k]

SameDistances(x, y) ==
    /\ DOMAIN x = DOMAIN y
    /\ \A j, k \in DOMAIN x : SumSq(Sub(x[j], x[k])) = SumSq(Sub(y[j], y[k]))

UnitAxes == { <<1, 0, 0>>, <<-1, 0, 0>>, <<0, 1, 0>>, <<0, -1, 0>>,
              <<0, 0, 1>>, <<0, 0, -1>> }

\* the proper rotations of the lattice, each given by its three columns
Rotations ==
    { m \in UnitAxes \X UnitAxes \X UnitAxes :
        /\ m[3] = Cross(m[1], m[2])
        /\ SumSq(Cross(m[1], m[2])) = 1 }

\* y is x moved by one rotation and one translation
RigidlyEqual(x, y) ==
    /\ DOMAIN x = DOMAIN y
    /\ \E m \in Rotations :
         \A k \in DOMAIN x : Sub(y[k], y[0]) = MatMul(m, Sub(x[k], x[0]))

\* every point has a component perpendicular to the bond axis
NonDegenerate(pt_) == \A k \in DOMAIN pt_ : pt_[k][2] # 0 \/ pt_[k][3] # 0

\* C2 as stated: whatever the point sequence, the chain returned for any
\* fragment count is the chain num_fragments = 1 returns (the sequential
\* chain, C1) up to a rigid transform, so it has the same pairwise distances.
C2_AnyFragmentCountSameChain ==
    Returned => SameDistances(Vals(coords), CanonicalNeRF(pt))

\* C2, amended: for a point sequence without degenerate points, the chain
\* returned for any fragment count, explicit or adaptive, is the chain
\* num_fragments = 1 returns moved by one rigid transform.  The rigid
\* transforms form a group, so any two fragment counts give chains that are
\* rigidly equal to each other.
C2_NonDegenerateSameChain ==
    (Returned /\ NonDegenerate(pt)) =>
        RigidlyEqual(CanonicalNeRF(pt), Vals(coords))

C2_Witness ==
    /\ Returned
    /\ NonDegenerate(pt)
    /\ num_frags = 3
    /\ s = 4
    /\ \E j, k \in DOMAIN pt : pt[j] # pt[k]

\* C3: no returned coordinate is an atom placed from a padding point, none
\* was computed from a padding point, and none went through the transform of
\* a lane that consumed padding.
C3_NoPaddingInOutput ==
    Returned =>
        \A k \in DOMAIN coords :
            /\ coords[k].src < s
            /\ \A d \in coords[k].dep : d < s
            /\ \A m \in DOMAIN coords[k].via : coords[k].via[m] < s

\* a run in which padding fills more than one lane, a lane of padding was
\* used as a transform, and coordinates of atoms are returned
C3_Witness ==
    /\ Returned
    /\ Size(coords) >= 2
    /\ r > FragSize
    /\ \E k \in DOMAIN coords_trans : \E m \in DOMAIN coords_trans[k].via :
          coords_trans[k].via[m] >= s

\* C4 as stated: a fragment count <= 0 or larger than the sequence never
\* gets past the configuration check, so no coordinates are returned.
C4_InvalidCountNeverReturns ==
    (num_fragments # <<>> /\ (num_fragments[1] <= 0 \/ num_fragments[1] > s))
        => ~Returned

\* C4, amended: a fragment count <= 0 fails and returns nothing; a fragment
\* count >= 1, also one larger than the sequence, never fails and returns N
\* coordinates.
C4_OnlyNonPositiveCountFails ==
    num_fragments # <<>> =>
        /\ num_fragments[1] <= 0 =>
              (pc \in {"start", "error"} /\ coords = Empty)
        /\ num_fragments[1] >= 1 =>
              (pc # "error" /\ (Returned => Size(coords) = s))

C4_Witness ==
    /\ pc = "error"
    /\ num_fragments = <<0>>
    /\ s >= 2

\* C5 as stated: the adaptive fragment count is round(sqrt(N)), that is
\* (2F - 1)^2 <= 4N < (2F + 1)^2, for N = STEPS * 3.
C5_AdaptiveIsRounded ==
    (num_fragments = <<>> /\ pc \notin {"start", "error"}
        /\ s % NUM_DIHEDRALS = 0) =>
        /\ (2 * num_frags - 1) * (2 * num_frags - 1) <= 4 * s
        /\ 4 * s < (2 * num_frags + 1) * (2 * num_frags + 1)

\* C5, amended: the adaptive fragment count is sqrt(N) truncated,
\* F^2 <= N < (F + 1)^2.
C5_AdaptiveIsTruncated ==
    (num_fragments = <<>> /\ pc \notin {"start", "error"}) =>
        /\ num_frags * num_frags <= s
        /\ s < (num_frags + 1) * (num_frags + 1)

C5_Witness ==
    /\ num_fragments = <<>>
    /\ Returned
    /\ s = 9
    /\ num_frags = 3
    /\ Size(coords) = s

\* C6: r zero points are appended at the end, 0 <= r < F and N + r a
\* multiple of F; there are F lanes of fragment_size = ceil(N / F) points.
C6_PaddingAndPartition ==
    pc \in {"loop_extend", "loop_trans", "done"} =>
        /\ 0 <= r
        /\ r < num_frags
        /\ (s + r) % num_frags = 0
        /\ FragSize = CeilDiv(s, num_frags)
        /\ num_frags * FragSize >= s
        /\ num_frags * FragSize = s + r
        /\ \A t \in DOMAIN pt_lanes :
              /\ DOMAIN pt_lanes[t] = 0..(num_frags - 1)
              /\ \A f \in DOMAIN pt_lanes[t] :
                    pt_lanes[t][f].v = PaddedPoint(f * FragSize + t)

C6_Witness ==
    /\ pc = "loop_extend"
    /\ r = 2
    /\ s = 4
    /\ num_frags < s

\* the atoms of lane l so far, after the three of the initial Triplet
LaneHistory(l) ==
    [k \in 0..(i + 2) |->
        IF k < 3 THEN Const(InitMat[k + 1]) ELSE coords_ta[k - 3][l]]

\* C9: phase 1 runs FRAG_SIZE iterations; after t of them the Triplet of a
\* lane is the last three of (initial a, b, c, the lane's outputs 0..t-1), and
\* output t of lane l is extend of that lane's Triplet and padded point
\* l * FRAG_SIZE + t, computed from points of lane l alone.
C9_PhaseOneLaneRecurrence ==
    /\ pc = "loop_extend" =>
          /\ i <= FragSize
          /\ FragSize = CeilDiv(s, num_frags)
          /\ \A t \in DOMAIN coords_ta : (coords_ta[t] # Empty) <=> (t < i)
          /\ \A l \in 0..(num_frags - 1) :
                /\ tris.a[l] = LaneHistory(l)[i]
                /\ tris.b[l] = LaneHistory(l)[i + 1]
                /\ tris.c[l] = LaneHistory(l)[i + 2]
                /\ \A t \in 0..(i - 1) :
                      /\ coords_ta[t][l].v =
                            ExtendVec(LaneHistory(l)[t].v,
                                      LaneHistory(l)[t + 1].v,
                                      LaneHistory(l)[t + 2].v,
                                      PaddedPoint(l * FragSize + t))
                      /\ coords_ta[t][l].src = l * FragSize + t
                      /\ coords_ta[t][l].dep =
                            (l * FragSize)..(l * FragSize + t)
    /\ pc \in {"loop_trans", "done"} =>
          /\ Size(coords_ta) = CeilDiv(s, num_frags)
          /\ \A t \in DOMAIN coords_ta :
                DOMAIN coords_ta[t] = 0..(num_frags - 1)

C9_Witness ==
    /\ pc = "loop_extend"
    /\ i = FragSize
    /\ i >= 2
    /\ num_frags >= 2
    /\ r = 1

\* what C10 says of the merged chain, but for the number of steps: loop_trans
\* ran for fragments F-2, F-3, ..., i+1 in that order; the chain holds lanes
\* i+1..F-1, lane j's output t at global position j * FRAG_SIZE + t; the head
\* fragment is untransformed and an atom of lane j went through the frames of
\* the final Triplets of lanes j-1, j-2, ..., i+1, in that order.
MergedChainInOrder ==
    /\ i >= -1
    /\ Len(merge_log) = num_frags - 2 - i
    /\ \A k \in DOMAIN merge_log : merge_log[k] = num_frags - 1 - k
    /\ Size(coords_trans) = (num_frags - 1 - i) * FragSize
    /\ \A k \in DOMAIN coords_trans :
          LET g == (i + 1) * FragSize + k
              j == g \div FragSize
          IN  /\ coords_trans[k].src = g
              /\ Len(coords_trans[k].via) = j - (i + 1)
              /\ \A m \in DOMAIN coords_trans[k].via :
                    coords_trans[k].via[m] = (i + m + 1) * FragSize - 1
              /\ k < FragSize => coords_trans[k] = coords_pre_trans[i + 1][k]

\* C10 as stated: the merge is in descending order down to fragment 0 and
\* takes F steps.
C10_MergeTakesFSteps ==
    /\ pc \in {"loop_trans", "done"} => MergedChainInOrder
    /\ Returned =>
          /\ i = -1
          /\ Size(coords_trans) = num_frags * FragSize
          /\ Len(merge_log) = num_frags

\* C10, amended: the merge is in descending order down to fragment 0 and
\* takes F - 1 steps, one for each of the fragments F-2..0; the last fragment
\* is the initial chain and the frame of its final Triplet is never used.
C10_MergeTakesFMinusOneSteps ==
    /\ pc \in {"loop_trans", "done"} => MergedChainInOrder
    /\ Returned =>
          /\ i = -1
          /\ Size(coords_trans) = num_frags * FragSize
          /\ Len(merge_log) = num_frags - 1
          /\ \A k \in DOMAIN coords_trans :
                \A m \in DOMAIN coords_trans[k].via :
                    coords_trans[k].via[m] # num_frags * FragSize - 1

C10_Witness ==
    /\ Returned
    /\ num_frags = 3
    /\ FragSize >= 2
    /\ merge_log = <<1, 0>>

\* C11 as stated: N coordinates are returned, coordinate 0 is the zero atom
\* and coordinate k is the atom placed from local point k, for k in 1..N-1.
C11_CoordinateKFromPointK ==
    Returned =>
        /\ Size(coords) = s
        /\ coords[0] = Const(Zero)
        /\ \A k \in 1..(s - 1) : coords[k].src = k

\* C11, amended: N coordinates are returned, coordinate 0 is the zero atom
\* and coordinate k is the atom placed from local point k - 1 (entry k - 1 of
\* the merged chain), for k in 1..N-1: its bond to coordinate k - 1 has the
\* length of local point k - 1 when no point is degenerate.  The atom placed
\* from local point N - 1 is not returned.
C11_CoordinateKFromPointKMinusOne ==
    Returned =>
        /\ Size(coords) = s
        /\ coords[0] = Const(Zero)
        /\ \A k \in 1..(s - 1) :
              /\ coords[k].src = k - 1
              /\ coords[k] = coords_trans[k - 1]
              /\ NonDegenerate(pt) =>
                    SumSq(Sub(coords[k].v, coords[k - 1].v)) = SumSq(pt[k - 1])
        /\ \A k \in DOMAIN coords : coords[k].src # s - 1

C11_Witness ==
    /\ Returned
    /\ s = 4
    /\ num_frags = 3
    /\ r = 2
    /\ NonDegenerate(pt)
    /\ SumSq(pt[1]) # SumSq(pt[2])

(***************************************************************************)
(* Properties of pairwise_distance and drmsd                               *)
(***************************************************************************)
\* C7 as stated: drmsd(u, u, weights) is 0.
C7_DrmsdOfSelfIsZero ==
    (dpc = "drmsd" /\ v = u) => \A b \in DOMAIN norms : norms[b] = 0

\* C7, amended: drmsd(u, u, weights) is sqrt(epsilon), the floor of
\* reduce_l2_norm, for every batch element and all weights.
C7_DrmsdOfSelfIsFloor ==
    (dpc = "drmsd" /\ v = u) =>
        /\ DOMAIN norms = DOMAIN u[0]
        /\ \A b \in DOMAIN norms : norms[b] > 0 /\ norms[b] * norms[b] = Epsilon

C7_Witness ==
    /\ dpc = "drmsd"
    /\ v = u
    /\ Size(u) = 2
    /\ Size(u[0]) = 2
    /\ u[0][0] # u[1][0]
    /\ weights[0][1][0] > 0

\* C8 as stated: the matrix is symmetric with a zero diagonal.
C8_SymmetricZeroDiagonal ==
    dpc = "pairwise_distance" =>
        \A j, k \in DOMAIN dist : \A b \in DOMAIN dist[j][k] :
            /\ dist[j][k][b] = dist[k][j][b]
            /\ dist[j][j][b] = 0

\* C8, amended: the matrix is symmetric and every diagonal entry is
\* sqrt(epsilon), the floor of reduce_l2_norm.
C8_SymmetricFloorDiagonal ==
    dpc = "pairwise_distance" =>
        /\ DOMAIN dist = DOMAIN u
        /\ \A j, k \in DOMAIN dist :
              /\ DOMAIN dist[j] = DOMAIN u
              /\ DOMAIN dist[j][k] = DOMAIN u[0]
              /\ \A b \in DOMAIN dist[j][k] :
                    /\ dist[j][k][b] = dist[k][j][b]
                    /\ dist[j][j][b] > 0
                    /\ dist[j][j][b] * dist[j][j][b] = Epsilon

C8_Witness ==
    /\ dpc = "pairwise_distance"
    /\ Size(u) = 2
    /\ Size(u[0]) = 2
    /\ dist[0][1][0] = 3
    /\ dist[1][0][1] = 1
    /\ u[0][1] = u[1][1]

(***************************************************************************)
(* Properties of dihedral_to_point                                         *)
(***************************************************************************)
\* the (x, y, z) offset built from the angle of q quarter turns and the bond
\* constants of dihedral index d
OffsetPoint(q, d) ==
    [x \in 0..(NUM_DIMENSIONS - 1) |->
        IF x = 0 THEN r_cos_theta[d]
        ELSE IF x = 1 THEN Cos(q) * r_sin_theta[d]
                      ELSE Sin(q) * r_sin_theta[d]]

\* C12: dihedral_to_point returns exactly STEPS * 3 entries of BATCH_SIZE
\* points each, and entry s * 3 + d at batch position b is the offset built
\* from angle [s, b, d] and the bond constants of dihedral index d alone.
C12_ResidueThenAtomOrder ==
    hpc = "done" =>
        /\ DOMAIN pt_final = 0..(Size(dihedral) * 3 - 1)
        /\ \A k \in DOMAIN pt_final : DOMAIN pt_final[k] = DOMAIN dihedral[0]
        /\ \A s_ \in DOMAIN dihedral : \A b \in DOMAIN dihedral[s_] :
              \A d \in DOMAIN dihedral[s_][b] :
                  pt_final[s_ * 3 + d][b] = OffsetPoint(dihedral[s_][b][d], d)

C12_Witness ==
    /\ hpc = "done"
    /\ Size(dihedral) = 2
    /\ Size(dihedral[0]) = 2
    /\ dihedral[1][1][1] = 1
    /\ dihedral[1][0][1] = 0
    /\ dihedral[0][1][1] = 2
    /\ dihedral[1][1][2] = 3
    /\ pt_final[4][1] = [x \in 0..2 |-> <<55, 0, 142>>[x + 1]]
====
